---- MODULE Spec2Model ----
(***************************************************************************)
(* Stereographic re-projection of an image (main.py).                      *)
(*                                                                         *)
(* Numbers.  The program computes in binary floating point.  Here every    *)
(* real is an exact rational <<n, d>> in lowest terms with d > 0, so the   *)
(* algebra of the program (k, the rotation, the clamp, the rounding and    *)
(* the modulo) is computed as written; floating-point rounding error is    *)
(* not modelled.  The three transcendental library functions are computed  *)
(* by rational approximations that are exact at the points the program's   *)
(* edge cases sit on:                                                      *)
(*   np.cos / np.sin  - a table of angles with rational sine and cosine    *)
(*   np.arccos(t)/pi  - piecewise linear through cos(j*30 deg), NaN        *)
(*                      outside [-1, 1]                                    *)
(*   np.arctan2/(2pi) - octant reduction and a quadratic for atan on [0,1] *)
(***************************************************************************)
EXTENDS Integers, Sequences, FiniteSets, TLC

VARIABLES
    pc,               \* position of the __main__ script
    prevent_scaling,  \* configuration globals, main.py lines 22-38
    w_proj, h_proj,
    offset_hor, offset_ver,
    scale,
    alpha, beta, gamma,
    arr_img,          \* source buffer, h_img x w_img colour triples
    h_img, w_img,
    arr_proj,         \* output buffer
    r,                \* sphere radius
    rot_mat,          \* rotation matrix
    idx,              \* position of the np.ndindex iterator
    writes,           \* history: number of stores made to each output coordinate
    owner,            \* partitioned loop only: the worker owning each coordinate
    fn, args, loc, ret \* a single call of one of the functions

vars == <<pc, prevent_scaling, w_proj, h_proj, offset_hor, offset_ver, scale,
          alpha, beta, gamma, arr_img, h_img, w_img, arr_proj, r, rot_mat,
          idx, writes, owner, fn, args, loc, ret>>

cfgVars == <<prevent_scaling, offset_hor, offset_ver, scale, alpha, beta, gamma>>
imgVars == <<arr_img, h_img, w_img>>
callVars == <<fn, args, loc, ret>>

----------------------------------------------------------------------------
(* Bounds *)

MaxDim == 2        \* script: image and output sides range over 1..MaxDim
MaxPixels == 4     \* partitioned loop: images of at most MaxPixels pixels
NumWorkers == 2    \* partitioned loop: number of workers
MaxSide == 3       \* single calls: h_img and w_img range over 1..MaxSide
MaxXY == 2         \* single calls: x and y are n/2, |n| <= MaxXY
MaxZ == 3          \* single calls: z is n/2, |n| <= MaxZ
MaxRad == 2        \* single calls: radii are n/2, 1 <= n <= MaxRad
MaxQuarter == 3    \* single calls: angles of 0..MaxQuarter quarter turns (plus the 3-4-5 angle)

----------------------------------------------------------------------------
(* Exact rational arithmetic standing for the program's float arithmetic *)

Abs(n) == IF n < 0 THEN -n ELSE n

RECURSIVE GCD(_, _)
GCD(a, b) == IF b = 0 THEN a ELSE GCD(b, a % b)

Rat(n, d) ==
    LET g == GCD(Abs(n), Abs(d))
        s == IF d < 0 THEN -1 ELSE 1
    IN  <<(s * n) \div g, (s * d) \div g>>

I2R(n) == <<n, 1>>
RAdd(a, b) ==
    LET g == GCD(a[2], b[2])
    IN  Rat(a[1] * (b[2] \div g) + b[1] * (a[2] \div g), (a[2] \div g) * b[2])
RSub(a, b) == RAdd(a, <<-b[1], b[2]>>)
RMul(a, b) ==
    LET g1 == GCD(Abs(a[1]), b[2])
        g2 == GCD(Abs(b[1]), a[2])
    IN  <<(a[1] \div g1) * (b[1] \div g2), (a[2] \div g2) * (b[2] \div g1)>>
RDiv(a, b) ==                      \* b # 0
    RMul(a, IF b[1] < 0 THEN <<-b[2], -b[1]>> ELSE <<b[2], b[1]>>)
RNeg(a) == <<-a[1], a[2]>>
RAbs(a) == <<Abs(a[1]), a[2]>>
RSq(a) == RMul(a, a)
RLt(a, b) ==
    LET g == GCD(a[2], b[2])
    IN  a[1] * (b[2] \div g) < b[1] * (a[2] \div g)
RLe(a, b) == ~RLt(b, a)
RZero(a) == a[1] = 0

\* round(): to the nearest integer, ties to the even one
Round(a) ==
    LET fl == a[1] \div a[2]
        twice == 2 * (a[1] - fl * a[2])
    IN  IF twice < a[2] THEN fl
        ELSE IF twice > a[2] THEN fl + 1
        ELSE IF fl % 2 = 0 THEN fl ELSE fl + 1

----------------------------------------------------------------------------
(* Outcomes of a call: a value, or a raised exception *)

Ok(v) == [err |-> "none", val |-> v]
Raise(e) == [err |-> e]

----------------------------------------------------------------------------
(* Library functions *)

NaN == <<0, 0>>                 \* a float that is not a number
IsNaN(a) == a[2] = 0

\* An angle is <<q, t>>: q quarter turns, plus (t = 1) the angle whose cosine
\* is 4/5 and sine 3/5.  Its sine and cosine are exact rationals.
Angles == (0..MaxQuarter) \X {0, 1}
CosQ(q) == <<1, 0, -1, 0>>[(q % 4) + 1]
SinQ(q) == <<0, 1, 0, -1>>[(q % 4) + 1]
Cos(a) ==
    IF a[2] = 0 THEN I2R(CosQ(a[1]))
    ELSE Rat(4 * CosQ(a[1]) - 3 * SinQ(a[1]), 5)
Sin(a) ==
    IF a[2] = 0 THEN I2R(SinQ(a[1]))
    ELSE Rat(4 * SinQ(a[1]) + 3 * CosQ(a[1]), 5)

\* np.arccos(t) / np.pi: linear between the knots cos(j * pi / 6), j = 0..6
CosKnot == << <<1, 1>>, <<13, 15>>, <<1, 2>>, <<0, 1>>,
              <<-1, 2>>, <<-13, 15>>, <<-1, 1>> >>
ArccosOverPi(t) ==
    IF RLt(t, I2R(-1)) \/ RLt(I2R(1), t) THEN NaN
    ELSE LET j == CHOOSE i \in 1..6 :
                    /\ RLe(CosKnot[i + 1], t)
                    /\ \A m \in 1..(i - 1) : ~RLe(CosKnot[m + 1], t)
             part == RDiv(RSub(CosKnot[j], t), RSub(CosKnot[j], CosKnot[j + 1]))
         IN  RDiv(RAdd(I2R(j - 1), part), I2R(6))

\* arctan(q) / (2 pi) for 0 <= q <= 1
AtanOverTwoPi(q) == RAdd(RDiv(q, I2R(8)), RDiv(RMul(q, RSub(I2R(1), q)), I2R(23)))

\* np.arctan2(y, x) / 2 / np.pi, in (-1/2, 1/2]
Atan2OverTwoPi(y, x) ==
    IF RZero(x) /\ RZero(y) THEN I2R(0)
    ELSE LET ax == RAbs(x)
             ay == RAbs(y)
             first == IF RLe(ay, ax) THEN AtanOverTwoPi(RDiv(ay, ax))
                      ELSE RSub(Rat(1, 4), AtanOverTwoPi(RDiv(ax, ay)))
             upper == IF x[1] < 0 THEN RSub(Rat(1, 2), first) ELSE first
         IN  IF y[1] < 0 THEN RNeg(upper) ELSE upper

----------------------------------------------------------------------------
(* The functions of main.py *)

\* get_point_on_sphere(point, r)
GetPointOnSphereHalfK(point, r0) ==
    LET x == point[1]
        y == point[2]
        den == RAdd(RAdd(RSq(x), RSq(y)), RSq(r0))
    IN  IF RZero(den) THEN Raise("ZeroDivisionError")
        ELSE LET k == RDiv(RSq(r0), den)
             IN  Ok(<<RMul(k, x), RMul(k, y), RMul(RSub(k, I2R(1)), r0)>>)

GetPointOnSphereUnscaledZ(point, r0) ==
    LET x == point[1]
        y == point[2]
        den == RAdd(RAdd(RSq(x), RSq(y)), RSq(r0))
    IN  IF RZero(den) THEN Raise("ZeroDivisionError")
        ELSE LET k == RDiv(RMul(I2R(2), RSq(r0)), den)
             IN  Ok(<<RMul(k, x), RMul(k, y), RSub(k, I2R(1))>>)

GetPointOnSphere(point, r0) ==
    LET x == point[1]
        y == point[2]
        den == RAdd(RAdd(RSq(x), RSq(y)), RSq(r0))
    IN  IF RZero(den) THEN Raise("ZeroDivisionError")
        ELSE LET k == RDiv(RMul(I2R(2), RSq(r0)), den)
             IN  Ok(<<RMul(k, x), RMul(k, y), RMul(RSub(k, I2R(1)), r0)>>)

\* axis_rotate(point, rot_mat): np.dot(rot_mat, point)
Dot3(row, v) == RAdd(RAdd(RMul(row[1], v[1]), RMul(row[2], v[2])), RMul(row[3], v[3]))
AxisRotate(point, m) == <<Dot3(m[1], point), Dot3(m[2], point), Dot3(m[3], point)>>

\* get_pix_on_img: the locals after lines 85-89 (r # 0)
PixLocals(point, r0) ==
    LET z == IF RLt(r0, point[3]) THEN r0 ELSE point[3]
    IN  [z |-> z,
         row |-> ArccosOverPi(RDiv(z, r0)),
         col |-> RAdd(Atan2OverTwoPi(point[2], point[1]), Rat(1, 2))]

\* round() of a float times an int, then % n.  round(NaN) has no defined
\* result: the interpreter raises ValueError, the compiled function converts
\* NaN to an unspecified integer, which % n brings into 0..n-1.
RoundModNoWrap(f, n) ==
    IF IsNaN(f) THEN {Raise("ValueError")} \cup {Ok(i) : i \in 0..(n - 1)}
    ELSE {Ok(Round(RMul(f, I2R(n))))}

RoundMod(f, n) ==
    IF IsNaN(f) THEN {Raise("ValueError")} \cup {Ok(i) : i \in 0..(n - 1)}
    ELSE {Ok(Round(RMul(f, I2R(n))) % n)}

\* get_pix_on_img(point, r, h_img, w_img): the set of possible outcomes
GetPixOnImg(point, r0, h, w) ==
    IF RZero(r0) THEN {Raise("ZeroDivisionError")}
    ELSE LET l == PixLocals(point, r0)
         IN  {IF ro.err # "none" THEN Raise(ro.err) ELSE Ok(<<ro.val, co.val>>) :
                 ro \in RoundMod(l.row, h), co \in RoundMod(l.col, w)}

RotMatSignSlip(a, b, g) ==
    << << RMul(Cos(g), Cos(b)),
          RAdd(RMul(RMul(Cos(g), Sin(b)), Sin(a)), RMul(Sin(g), Cos(a))),
          RAdd(RMul(RMul(Cos(g), Sin(b)), Cos(a)), RMul(Sin(g), Sin(a))) >>,
       << RMul(Sin(g), Cos(b)),
          RAdd(RMul(RMul(Sin(g), Sin(b)), Sin(a)), RMul(Cos(g), Cos(a))),
          RSub(RMul(RMul(Sin(g), Sin(b)), Cos(a)), RMul(Cos(g), Sin(a))) >>,
       << RNeg(Sin(b)),
          RMul(Cos(b), Sin(a)),
          RMul(Cos(b), Cos(a)) >> >>

\* rot_mat, lines 142-160
RotMat(a, b, g) ==
    << << RMul(Cos(g), Cos(b)),
          RSub(RMul(RMul(Cos(g), Sin(b)), Sin(a)), RMul(Sin(g), Cos(a))),
          RAdd(RMul(RMul(Cos(g), Sin(b)), Cos(a)), RMul(Sin(g), Sin(a))) >>,
       << RMul(Sin(g), Cos(b)),
          RAdd(RMul(RMul(Sin(g), Sin(b)), Sin(a)), RMul(Cos(g), Cos(a))),
          RSub(RMul(RMul(Sin(g), Sin(b)), Cos(a)), RMul(Cos(g), Sin(a))) >>,
       << RNeg(Sin(b)),
          RMul(Cos(b), Sin(a)),
          RMul(Cos(b), Cos(a)) >> >>

----------------------------------------------------------------------------
(* Single calls of the functions, on inputs from bounded sets *)

XYCoord == {Rat(n, 2) : n \in (-MaxXY)..MaxXY}
ZCoord == {Rat(n, 2) : n \in (-MaxZ)..MaxZ}
Radii == {Rat(n, 2) : n \in 1..MaxRad}
Sides == 1..MaxSide

FnIdle ==
    /\ prevent_scaling = TRUE /\ w_proj = 0 /\ h_proj = 0
    /\ offset_hor = I2R(0) /\ offset_ver = I2R(0) /\ scale = I2R(1)
    /\ alpha = <<0, 0>> /\ beta = <<0, 0>> /\ gamma = <<0, 0>>
    /\ arr_img = <<>> /\ h_img = 0 /\ w_img = 0
    /\ arr_proj = <<>> /\ r = I2R(0) /\ rot_mat = <<>>
    /\ idx = 0 /\ writes = <<>> /\ owner = <<>>

fnVars == <<prevent_scaling, w_proj, h_proj, offset_hor, offset_ver, scale,
            alpha, beta, gamma, arr_img, h_img, w_img, arr_proj, r, rot_mat,
            idx, writes, owner, fn, args>>

NoCall == fn = "none" /\ args = <<>> /\ loc = <<>> /\ ret = <<>>

\* the arguments of one call
InitFn ==
    /\ FnIdle
    /\ pc = "call"
    /\ loc = <<>> /\ ret = <<>>
    /\ \/ /\ fn = "get_point_on_sphere"
          /\ args \in {<< <<x, y, I2R(0)>>, r0 >> : x \in XYCoord, y \in XYCoord, r0 \in Radii}
       \/ /\ fn = "get_pix_on_img"
          /\ args \in (XYCoord \X XYCoord \X ZCoord) \X Radii \X Sides \X Sides
       \/ /\ fn = "rot_mat"
          /\ args \in Angles \X Angles \X Angles

CallGetPointOnSphere ==
    /\ pc = "call" /\ fn = "get_point_on_sphere"
    /\ ret' = GetPointOnSphere(args[1], args[2])
    /\ pc' = "returned"
    /\ UNCHANGED <<fnVars, loc>>

CallGetPixOnImg ==
    /\ pc = "call" /\ fn = "get_pix_on_img"
    /\ \E out \in GetPixOnImg(args[1], args[2], args[3], args[4]) : ret' = out
    /\ loc' = PixLocals(args[1], args[2])
    /\ pc' = "returned"
    /\ UNCHANGED fnVars

BuildRotMat ==
    /\ pc = "call" /\ fn = "rot_mat"
    /\ ret' = Ok(RotMat(args[1], args[2], args[3]))
    /\ pc' = "returned"
    /\ UNCHANGED <<fnVars, loc>>

NextFn == CallGetPointOnSphere \/ CallGetPixOnImg \/ BuildRotMat

SpecFn == InitFn /\ [][NextFn]_vars

----------------------------------------------------------------------------
(* The __main__ script *)

Black == <<0, 0, 0>>
Index(h, w) == (0..(h - 1)) \X (0..(w - 1))     \* the index range of an h x w buffer

\* the loaded images: one with pairwise distinct colours, one with black pixels
Images(h, w) ==
    { [p \in Index(h, w) |-> <<p[1] + 1, p[2] + 1, 255>>],
      [p \in Index(h, w) |-> IF (p[1] + p[2]) % 2 = 0 THEN Black ELSE <<255, 255, 255>>] }

Offsets == { <<I2R(0), I2R(0)>>, <<I2R(0), Rat(2, 5)>> }      \* <<offset_hor, offset_ver>>
Scales == { I2R(-1), I2R(0), Rat(3, 2), I2R(5) }
Zero == <<0, 0>>                                   \* the angle 0
Turned == { <<1, 0>>, <<0, 1>> }                   \* a quarter turn, the 3-4-5 angle
Rotations ==                                       \* <<alpha, beta, gamma>>
    {<<Zero, Zero, Zero>>} \cup {<<a, Zero, Zero>> : a \in Turned}
        \cup {<<Zero, a, Zero>> : a \in Turned} \cup {<<Zero, Zero, a>> : a \in Turned}
Dims == 1..MaxDim

Init ==
    /\ pc = "start"
    /\ prevent_scaling \in BOOLEAN
    /\ IF prevent_scaling
         THEN w_proj = 400 /\ h_proj = 300
         ELSE w_proj \in (-1)..MaxDim /\ h_proj \in (-1)..MaxDim
    /\ \E o \in Offsets : offset_hor = o[1] /\ offset_ver = o[2]
    /\ scale \in Scales
    /\ \E t \in Rotations : alpha = t[1] /\ beta = t[2] /\ gamma = t[3]
    /\ h_img \in Dims /\ w_img \in Dims
    /\ arr_img \in Images(h_img, w_img)
    /\ arr_proj = <<>> /\ r = I2R(0) /\ rot_mat = <<>>
    /\ idx = 0 /\ writes = <<>> /\ owner = <<>>
    /\ NoCall

\* projection(pix_proj, r, h_img, w_img, h_proj, w_proj), with the globals
\* offset_ver, offset_hor and rot_mat: the set of possible outcomes
Projection(pix_proj, r0, hi, wi, hp, wp) ==
    LET x == RAdd(I2R(pix_proj[1]), RMul(RSub(offset_ver, Rat(1, 2)), I2R(hp)))
        y == RAdd(I2R(pix_proj[2]), RMul(RSub(offset_hor, Rat(1, 2)), I2R(wp)))
        P == GetPointOnSphere(<<x, y, I2R(0)>>, r0)
    IN  IF P.err # "none" THEN {P}
        ELSE GetPixOnImg(AxisRotate(P.val, rot_mat), r0, hi, wi)

NdIndexTransposed(i, w) == <<i % w, i \div w>>

\* np.ndindex(shape): the i-th index of the row-major scan of an h x w range
NdIndex(i, w) == <<i \div w, i % w>>

StoreWholeRow(buf, pix_proj, colour) ==
    [p \in DOMAIN buf |-> IF p[1] = pix_proj[1] THEN colour ELSE buf[p]]

StoreTransposed(buf, pix_proj, colour) ==
    [p \in DOMAIN buf |-> IF p = <<pix_proj[2], pix_proj[1]>> THEN colour ELSE buf[p]]

\* arr_proj[pix_proj] = arr_img[pix_img]
Store(buf, pix_proj, colour) == [buf EXCEPT ![pix_proj] = colour]

LoopRunningOffByOne == idx < h_proj * w_proj - 1

\* the for loop has indices left
LoopRunning == idx < h_proj * w_proj

\* arr_proj[pix_proj] = arr_img[projection(pix_proj, ...)], lines 167-168
Body(pix_proj) ==
    \E out \in Projection(pix_proj, r, h_img, w_img, h_proj, w_proj) :
        /\ out.err = "none"
        /\ arr_proj' = Store(arr_proj, pix_proj, arr_img[out.val])
        /\ writes' = [writes EXCEPT ![pix_proj] = @ + 1]

\* lines 133-160: output size, allocation, radius, rotation matrix
Prepare ==
    /\ pc = "start"
    /\ LET h == IF prevent_scaling THEN h_img ELSE h_proj
           w == IF prevent_scaling THEN w_img ELSE w_proj
       IN  /\ h >= 0 /\ w >= 0
           /\ h_proj' = h /\ w_proj' = w
           /\ arr_proj' = [p \in Index(h, w) |-> Black]
           /\ writes' = [p \in Index(h, w) |-> 0]
           /\ r' = RMul(RDiv(I2R(IF h < w THEN h ELSE w), I2R(10)), scale)
    /\ rot_mat' = RotMat(alpha, beta, gamma)
    /\ idx' = 0
    /\ pc' = "loop"
    /\ UNCHANGED <<cfgVars, imgVars, callVars>>

Setup == Prepare /\ UNCHANGED owner

\* line 137: np.zeros raises ValueError on a negative dimension
SetupRaises ==
    /\ pc = "start"
    /\ ~prevent_scaling
    /\ h_proj < 0 \/ w_proj < 0
    /\ pc' = "error"
    /\ UNCHANGED <<cfgVars, imgVars, w_proj, h_proj, arr_proj, r, rot_mat, idx,
                   writes, owner, callVars>>

\* lines 166-169: one iteration of the loop
Step ==
    /\ pc = "loop"
    /\ LoopRunning
    /\ Body(NdIndex(idx, w_proj))
    /\ idx' = idx + 1
    /\ UNCHANGED <<pc, cfgVars, imgVars, w_proj, h_proj, r, rot_mat, owner, callVars>>

\* line 167: projection raises, the script ends with the exception
StepRaises ==
    /\ pc = "loop"
    /\ LoopRunning
    /\ \E out \in Projection(NdIndex(idx, w_proj), r, h_img, w_img, h_proj, w_proj) :
           out.err # "none"
    /\ pc' = "error"
    /\ UNCHANGED <<cfgVars, imgVars, w_proj, h_proj, arr_proj, r, rot_mat, idx,
                   writes, owner, callVars>>

\* lines 171-174: the loop is over, Image.fromarray(arr_proj).save(path_proj)
Save ==
    /\ pc = "loop"
    /\ ~LoopRunning
    /\ h_proj * w_proj > 0
    /\ pc' = "saved"
    /\ UNCHANGED <<cfgVars, imgVars, w_proj, h_proj, arr_proj, r, rot_mat, idx,
                   writes, owner, callVars>>

\* line 174: the encoder raises on an image without pixels
SaveRaises ==
    /\ pc = "loop"
    /\ ~LoopRunning
    /\ h_proj * w_proj = 0
    /\ pc' = "error"
    /\ UNCHANGED <<cfgVars, imgVars, w_proj, h_proj, arr_proj, r, rot_mat, idx,
                   writes, owner, callVars>>

Next == Setup \/ SetupRaises \/ Step \/ StepRaises \/ Save \/ SaveRaises

Spec == Init /\ [][Next]_vars

----------------------------------------------------------------------------
(* The loop of lines 166-168 with its index range split among workers:    *)
(* every worker runs the loop body on the coordinates of its own slice,   *)
(* in any order, interleaved with the other workers.                      *)

Workers == 1..NumWorkers
Shapes == { s \in (1..MaxPixels) \X (1..MaxPixels) : s[1] * s[2] <= MaxPixels }

InitPar ==
    /\ pc = "start"
    /\ prevent_scaling = TRUE /\ w_proj = 400 /\ h_proj = 300
    /\ offset_hor = I2R(0) /\ offset_ver = Rat(2, 5)
    /\ scale = I2R(5)
    /\ \E t \in {<<Zero, Zero, Zero>>, <<Zero, <<1, 0>>, Zero>>, <<<<0, 1>>, Zero, Zero>>} :
           alpha = t[1] /\ beta = t[2] /\ gamma = t[3]
    /\ \E s \in Shapes : h_img = s[1] /\ w_img = s[2]
    /\ arr_img = [p \in Index(h_img, w_img) |-> <<p[1] + 1, p[2] + 1, 255>>]
    /\ arr_proj = <<>> /\ r = I2R(0) /\ rot_mat = <<>>
    /\ idx = 0 /\ writes = <<>> /\ owner = <<>>
    /\ NoCall

\* the slices: owner[k] is the set of coordinates worker k has still to process
ParSetup ==
    /\ Prepare
    /\ \E part \in [Index(h_img, w_img) -> Workers] :
           owner' = [k \in Workers |-> {p \in Index(h_img, w_img) : part[p] = k}]

WorkerStep(k) ==
    /\ pc = "loop"
    /\ \E pix_proj \in owner[k] :
           /\ Body(pix_proj)
           /\ owner' = [owner EXCEPT ![k] = @ \ {pix_proj}]
    /\ idx' = idx + 1
    /\ UNCHANGED <<pc, cfgVars, imgVars, w_proj, h_proj, r, rot_mat, callVars>>

ParSave ==
    /\ pc = "loop"
    /\ \A k \in Workers : owner[k] = {}
    /\ pc' = "saved"
    /\ UNCHANGED <<cfgVars, imgVars, w_proj, h_proj, arr_proj, r, rot_mat, idx,
                   writes, owner, callVars>>

NextPar == ParSetup \/ (\E k \in Workers : WorkerStep(k)) \/ ParSave

SpecPar == InitPar /\ [][NextPar]_vars

----------------------------------------------------------------------------
(* Properties *)

Called(f) == fn = f /\ pc = "returned"
Origin == <<I2R(0), I2R(0), I2R(0)>>

\* C1 (as claimed): get_pix_on_img is total and in range: every call, also
\* with z > r or z < -r, returns without error a pair (row, col) with
\* 0 <= row < h_img and 0 <= col < w_img.
C1_TotalInRange ==
    Called("get_pix_on_img") =>
        /\ ret.err = "none"
        /\ ret.val[1] \in 0..(args[3] - 1)
        /\ ret.val[2] \in 0..(args[4] - 1)

\* the colours the pipeline can produce for output coordinate p
Final(p) ==
    {arr_img[out.val] :
        out \in {o \in Projection(p, r, h_img, w_img, h_proj, w_proj) : o.err = "none"}}

\* C2: the sampling loop never writes an output coordinate twice, and when
\* the loop has ended every output coordinate has been written exactly once.
C2_ExactlyOnce ==
    /\ \A p \in DOMAIN writes : writes[p] <= 1
    /\ pc = "loop" => DOMAIN writes = Index(h_proj, w_proj)
    /\ (pc = "saved" \/ (pc = "loop" /\ ~LoopRunning)) =>
           \A p \in Index(h_proj, w_proj) : writes[p] = 1
C2_Witness == pc = "saved" /\ h_proj = 2 /\ w_proj = 2 /\ idx = 4

\* C3 (as claimed): get_point_on_sphere at Q = (0, 0, 0) returns (0, 0, -r).
C3_OriginToMinusR ==
    (Called("get_point_on_sphere") /\ args[1] = Origin) =>
        ret = Ok(<<I2R(0), I2R(0), RNeg(args[2])>>)

\* C3 (amended): for every r > 0, get_point_on_sphere at Q = (0, 0, 0) returns
\* exactly (0, 0, +r), the point of the sphere opposite the projection point.
C3_OriginToPlusR ==
    (Called("get_point_on_sphere") /\ args[1] = Origin) =>
        ret = Ok(<<I2R(0), I2R(0), args[2]>>)
C3_Witness ==
    Called("get_point_on_sphere") /\ args[1] = Origin /\ args[2] = Rat(1, 2)
        /\ ret.err = "none"

\* the standard rotations about the x, y and z axes, and the matrix product
Rx(a) == << <<I2R(1), I2R(0), I2R(0)>>,
            <<I2R(0), Cos(a), RNeg(Sin(a))>>,
            <<I2R(0), Sin(a), Cos(a)>> >>
Ry(b) == << <<Cos(b), I2R(0), Sin(b)>>,
            <<I2R(0), I2R(1), I2R(0)>>,
            <<RNeg(Sin(b)), I2R(0), Cos(b)>> >>
Rz(g) == << <<Cos(g), RNeg(Sin(g)), I2R(0)>>,
            <<Sin(g), Cos(g), I2R(0)>>,
            <<I2R(0), I2R(0), I2R(1)>> >>
MatMul(m, n) ==
    [i \in 1..3 |-> [j \in 1..3 |->
        RAdd(RAdd(RMul(m[i][1], n[1][j]), RMul(m[i][2], n[2][j])), RMul(m[i][3], n[3][j]))]]

\* C4: for angles with exact sines and cosines, the closed-form rot_mat equals
\* the product Rz(gamma) * Ry(beta) * Rx(alpha) entry by entry.
C4_RotMatIsProduct ==
    Called("rot_mat") =>
        \A i \in 1..3, j \in 1..3 :
            ret.val[i][j] = MatMul(Rz(args[3]), MatMul(Ry(args[2]), Rx(args[1])))[i][j]
C4_Witness ==
    Called("rot_mat") /\ args = << <<1, 1>>, <<0, 1>>, <<3, 0>> >> /\ ret.err = "none"

\* C5 (as claimed): a run with an invalid configuration (scale <= 0, or an
\* output width or height <= 0) writes no output pixel and never hands the
\* output to the writer.
InvalidConfiguration ==
    \/ RLe(scale, I2R(0))
    \/ ~prevent_scaling /\ (h_proj <= 0 \/ w_proj <= 0)
C5_InvalidRejected ==
    InvalidConfiguration =>
        /\ pc # "saved"
        /\ \A p \in DOMAIN writes : writes[p] = 0

\* C6: when the output buffer is handed to the writer, every output
\* coordinate has been written and holds arr_img[projection(p)].
C6_SavedFullyPopulated ==
    pc = "saved" =>
        \A p \in Index(h_proj, w_proj) :
            /\ writes[p] >= 1
            /\ Final(p) = {arr_proj[p]}
C6_Witness ==
    /\ pc = "saved" /\ h_proj = 2 /\ w_proj = 2
    /\ \E p \in Index(h_proj, w_proj), q \in Index(h_proj, w_proj) : arr_proj[p] # arr_proj[q]

\* the buffer the sequential row-major loop of lines 166-168 produces from buf
RECURSIVE SeqRun(_, _)
SeqRun(buf, i) ==
    IF i >= h_proj * w_proj THEN buf
    ELSE LET p == NdIndex(i, w_proj)
             out == CHOOSE o \in Projection(p, r, h_img, w_img, h_proj, w_proj) :
                        o.err = "none"
         IN  SeqRun(Store(buf, p, arr_img[out.val]), i + 1)

\* C7: with the coordinates split into disjoint slices processed by
\* interleaved workers in any order, every coordinate is written by exactly
\* one worker, and the final buffer equals that of the sequential loop.
C7_OrderIndependent ==
    /\ pc # "start" =>
           \A p \in Index(h_proj, w_proj) :
               /\ Cardinality({k \in Workers : p \in owner[k]}) + writes[p] = 1
    /\ pc = "saved" =>
           /\ \A p \in Index(h_proj, w_proj) : writes[p] = 1
           /\ arr_proj = SeqRun([p \in Index(h_proj, w_proj) |-> Black], 0)
C7_Witness ==
    /\ pc = "loop" /\ h_proj * w_proj >= 3 /\ idx = h_proj * w_proj - 1
    /\ writes[<<0, 0>>] = 0
    /\ \E p \in Index(h_proj, w_proj), q \in Index(h_proj, w_proj) : arr_proj[p] \notin {Black, arr_proj[q]}

\* C8: in get_pix_on_img, z = r gives row 0; z = -r gives row fraction 1,
\* round(1 * h_img) = h_img, and row h_img mod h_img = 0.
C8_PoleRows ==
    Called("get_pix_on_img") =>
        /\ args[1][3] = args[2] => ret.err = "none" /\ ret.val[1] = 0
        /\ args[1][3] = RNeg(args[2]) =>
               /\ loc.row = I2R(1)
               /\ Round(RMul(loc.row, I2R(args[3]))) = args[3]
               /\ ret.err = "none" /\ ret.val[1] = 0
C8_Witness ==
    /\ Called("get_pix_on_img") /\ args[1][3] = RNeg(args[2]) /\ args[3] = 3
    /\ args[1][1] # I2R(0) /\ ret.err = "none" /\ ret.val[1] = 0

\* C9: in every state of the sampling loop, the coordinates already visited
\* (a prefix of the row-major scan) hold their final value
\* arr_img[projection(p)], all others still hold (0, 0, 0), and no step
\* changes the source buffer.
Visited == {NdIndex(i, w_proj) : i \in 0..(idx - 1)}
C9_LoopState ==
    pc \in {"loop", "saved"} =>
        /\ {p \in Index(h_proj, w_proj) : writes[p] > 0} = Visited
        /\ \A p \in Index(h_proj, w_proj) :
               IF p \in Visited THEN Final(p) = {arr_proj[p]} ELSE arr_proj[p] = Black
C9_AbortSafe == [](C9_LoopState) /\ [][arr_img' = arr_img]_vars
C9_Witness ==
    /\ pc = "loop" /\ h_proj = 2 /\ w_proj = 2 /\ idx = 2
    /\ arr_proj[<<0, 1>>] # Black /\ arr_proj[<<1, 0>>] = Black

\* C10: the point returned by get_point_on_sphere lies on the sphere of
\* radius r about the origin: px^2 + py^2 + pz^2 = r^2, and -r <= pz <= r.
C10_OnSphere ==
    Called("get_point_on_sphere") =>
        /\ ret.err = "none"
        /\ RAdd(RAdd(RSq(ret.val[1]), RSq(ret.val[2])), RSq(ret.val[3])) = RSq(args[2])
        /\ RLe(RNeg(args[2]), ret.val[3]) /\ RLe(ret.val[3], args[2])
C10_Witness ==
    /\ Called("get_point_on_sphere") /\ ret.err = "none"
    /\ args[1][1] = Rat(1, 2) /\ args[1][2] = I2R(-1) /\ args[2] = Rat(1, 2)
    /\ ret.val[3] # args[2] /\ ret.val[3] # I2R(0)

====
